---- MODULE Spec2Model ----
(***************************************************************************)
(* dnsmasq_exporter (src/dnsmasq.go): the /metrics handler server.metrics. *)
(* Each scrape request spawns two goroutines in an errgroup.Group, the     *)
(* stats collector (one CHAOS TXT exchange, decoded into six gauges) and   *)
(* the lease collector (the lease file scanned into dnsmasq_lease_expiry   *)
(* and dnsmasq_leases), waits for both and then either renders the         *)
(* process-wide registry or answers 500 with the first error.              *)
(*                                                                         *)
(* Text is a sequence of one-character strings, so that strings.Fields and *)
(* strconv.ParseFloat are computed and not assumed.  A step of the model   *)
(* holds at most one operation on memory shared between goroutines.        *)
(***************************************************************************)
EXTENDS Integers, Sequences, FiniteSets, TLC

\* ------------------------------------------------------------------ bounds
\* Requests in flight together (specification Spec).
NumRequests == 2
\* Longest lease file, in lines.
MaxLines == 2
\* Longest DNS answer section, in records.
MaxRecords == 2

\* ------------------------------------------------------------------- text
Digits == <<"0", "1", "2", "3", "4", "5", "6", "7", "8", "9">>

IsSpace(c) == c \in {" ", "\t"}

IsDigit(c) == \E i \in 1..10 : Digits[i] = c

DigitVal(c) == (CHOOSE i \in 1..10 : Digits[i] = c) - 1

RECURSIVE DecVal(_)
DecVal(s) ==
    IF s = <<>> THEN 0
    ELSE 10 * DecVal(SubSeq(s, 1, Len(s) - 1)) + DigitVal(s[Len(s)])

\* strconv.ParseFloat(s, 64) on the texts of this model, which hold digits,
\* letters, ":" and "." only as separators of names: a non-empty run of
\* decimal digits parses to its value, anything else is a syntax error.
ParseFloat(s) ==
    IF s # <<>> /\ \A i \in 1..Len(s) : IsDigit(s[i])
    THEN [ok |-> TRUE, f |-> DecVal(s)]
    ELSE [ok |-> FALSE, f |-> 0]

\* strings.Fields: the maximal runs of non-space characters, in order.
RECURSIVE FieldsFrom(_, _, _)
FieldsFrom(s, cur, acc) ==
    IF s = <<>> THEN (IF cur = <<>> THEN acc ELSE Append(acc, cur))
    ELSE IF IsSpace(Head(s))
         THEN FieldsFrom(Tail(s), <<>>, IF cur = <<>> THEN acc ELSE Append(acc, cur))
         ELSE FieldsFrom(Tail(s), Append(cur, Head(s)), acc)

Fields(s) == FieldsFrom(s, <<>>, <<>>)

\* ------------------------------------------------------------------ state
VARIABLES
    floatMetrics,   \* the six statistics gauges, keyed by DNS record name
    leases,         \* the gauge dnsmasq_leases
    leaseExpiry,    \* the gauge vector dnsmasq_lease_expiry: label 4-tuple -> value
    disk,           \* the file at s.leasesPath
    pc,             \* per request: idle, running (in eg.Wait), success, failed
    eg,             \* per request: the errgroup.Group (goroutines left, first error)
    stat,           \* per request: the stats collector goroutine
    lease,          \* per request: the lease collector goroutine
    resp,           \* per request: what was written to the http.ResponseWriter
    crashed,        \* an unrecovered panic has ended the process
    lastRun         \* history: the lease gauges as the last returned lease
                    \* collector left them (valid), and whether a collector
                    \* had returned before it (again), on the file as it is now

vars == <<floatMetrics, leases, leaseExpiry, disk, pc, eg, stat, lease, resp,
          crashed, lastRun>>

\* ------------------------------------------------------------- error values
NoErr == "nil"
ErrTransport == "dns: exchange failed"
ErrCount == "stats DNS record: unexpected number of replies"
ErrSyntax == "strconv.ParseFloat: invalid syntax"
ErrOpen == "open: no such file or directory"
ErrScan == "bufio.Scanner: read error"

StatusOK == 200
StatusInternalServerError == 500

\* ---------------------------------------------------------------- registry
StatNames == {"cachesize.bind.", "insertions.bind.", "evictions.bind.",
              "misses.bind.", "hits.bind.", "auth.bind."}

\* Variant: the value is added to the gauge instead of replacing it.
GaugeAdd(m, name, f) == [m EXCEPT ![name] = @ + f]

\* Variant: the value lands in the registry entry of dnsmasq_leases.
GaugeSetLeases(m, name, f) ==
    [k \in DOMAIN m \cup {"dnsmasq_leases"} |-> IF k = "dnsmasq_leases" THEN f ELSE m[k]]

\* prometheus.Gauge.Set
GaugeSet(m, name, f) == [m EXCEPT ![name] = f]

\* Variant: the line count is added to the gauge instead of replacing it.
ScalarAdd(g, f) == g + f

\* prometheus.Gauge.Set on a gauge that stands alone (leases)
ScalarSet(g, f) == f

\* A gauge vector with no series.
EmptyVec == [k \in {} |-> 0]

\* Variant: the vector is not cleared before the scan.
VecKeep(vec) == vec

\* prometheus.GaugeVec.Reset
VecReset(vec) == EmptyVec

\* Variant: setting a series drops the other series of the vector.
VecWithSetAlone(vec, key, v) == [k \in {key} |-> v]

\* prometheus.GaugeVec.With(labels).Set(v)
VecWithSet(vec, key, v) ==
    [k \in DOMAIN vec \cup {key} |-> IF k = key THEN v ELSE vec[k]]

\* promhttp.Handler: the registry as gathered for one response
Gather == [stats |-> floatMetrics, leases |-> leases, expiry |-> leaseExpiry]

NoRender == [stats |-> [n \in {} |-> 0], leases |-> -1, expiry |-> EmptyVec]

\* Nothing written to the http.ResponseWriter yet.
NoResp == [status |-> 0, body |-> "", rendered |-> NoRender]

\* Variant: the 500 is written with a fixed text in place of err.Error().
HttpErrorGeneric(err) ==
    [status |-> StatusInternalServerError, body |-> "Internal Server Error",
     rendered |-> NoRender]

\* http.Error(w, err.Error(), http.StatusInternalServerError)
HttpError(err) ==
    [status |-> StatusInternalServerError, body |-> err, rendered |-> NoRender]

\* s.promHandler.ServeHTTP(w, r)
ServeHTTP == [status |-> StatusOK, body |-> "", rendered |-> Gather]

\* ----------------------------------------------------------------- inputs
SeqsUpTo(S, n) == UNION {[1..k -> S] : k \in 0..n}

NoFile == [exists |-> FALSE, lines |-> <<>>, scanErr |-> FALSE]

\* The lease files over the lines L: the lines a scan delivers, and whether
\* the scan then ends with an error (scanner.Err() # nil) or at end of file.
FilesOver(L) ==
    {[exists |-> TRUE, lines |-> s, scanErr |-> e] :
        s \in SeqsUpTo(L, MaxLines), e \in BOOLEAN}

\* No lease collector has returned since the file last changed.
NoRun == [valid |-> FALSE, again |-> FALSE, expiry |-> EmptyVec, leases |-> 0]

\* ------------------------------------------------------------------- Init
InitOn(Reqs, Files) ==
    /\ floatMetrics = [n \in StatNames |-> 0]
    /\ leases = 0
    /\ leaseExpiry = EmptyVec
    /\ disk \in Files
    /\ pc = [r \in Reqs |-> "idle"]
    /\ eg = [r \in Reqs |-> [n |-> 0, err |-> NoErr]]
    /\ stat = [r \in Reqs |-> [pc |-> "off", answer |-> <<>>, i |-> 0, err |-> NoErr]]
    /\ lease = [r \in Reqs |-> [pc |-> "off", pos |-> 0, lines |-> 0, err |-> NoErr]]
    /\ resp = [r \in Reqs |-> NoResp]
    /\ crashed = FALSE
    /\ lastRun = NoRun

\* --------------------------------------------------------------- errgroup
\* Variant: the group keeps the result of the goroutine that returned last.
GoReturnLast(g, err) == [n |-> g.n - 1, err |-> err]

\* Variant: a goroutine that returns an error does not reach wg.Done().
GoReturnNoDone(g, err) ==
    IF err # NoErr
    THEN [n |-> g.n, err |-> IF g.err = NoErr THEN err ELSE g.err]
    ELSE [n |-> g.n - 1, err |-> g.err]

\* Variant: a later non-nil error replaces the one already kept.
GoReturnLastError(g, err) ==
    [n |-> g.n - 1, err |-> IF err # NoErr THEN err ELSE g.err]

\* The goroutine wrapper of errgroup.Group.Go: the function has returned err;
\* errOnce keeps the first non-nil error, then wg.Done().
GoReturn(g, err) ==
    [n |-> g.n - 1, err |-> IF g.err = NoErr THEN err ELSE g.err]

\* Variant: Wait returns once one of the two goroutines is done.
JoinedEarly(g) == g.n <= 1

\* Variant: Wait returns at the first error, the other goroutine still running.
JoinedOnError(g) == g.n = 0 \/ g.err # NoErr

\* eg.Wait() can return: wg has reached zero.
Joined(g) == g.n = 0

\* ---------------------------------------------------------- stats decoding
\* Variant: only a record without any value is refused; of several values
\* the first is taken.
DecodeRecordLenient(a) ==
    IF ~a.isTXT THEN [act |-> "continue", err |-> NoErr, f |-> 0]
    ELSE IF a.name = "servers.bind." THEN [act |-> "continue", err |-> NoErr, f |-> 0]
    ELSE IF a.name \notin StatNames THEN [act |-> "continue", err |-> NoErr, f |-> 0]
    ELSE IF Len(a.Txt) < 1 THEN [act |-> "return", err |-> ErrCount, f |-> 0]
    ELSE LET p == ParseFloat(a.Txt[1]) IN
         IF ~p.ok THEN [act |-> "return", err |-> ErrSyntax, f |-> 0]
         ELSE [act |-> "set", err |-> NoErr, f |-> p.f]

\* Variant: the value count of a TXT record is checked before its name is
\* looked up.
DecodeRecordCountFirst(a) ==
    IF ~a.isTXT THEN [act |-> "continue", err |-> NoErr, f |-> 0]
    ELSE IF Len(a.Txt) # 1 THEN [act |-> "return", err |-> ErrCount, f |-> 0]
    ELSE IF a.name = "servers.bind." THEN [act |-> "continue", err |-> NoErr, f |-> 0]
    ELSE IF a.name \notin StatNames THEN [act |-> "continue", err |-> NoErr, f |-> 0]
    ELSE LET p == ParseFloat(a.Txt[1]) IN
         IF ~p.ok THEN [act |-> "return", err |-> ErrSyntax, f |-> 0]
         ELSE [act |-> "set", err |-> NoErr, f |-> p.f]

\* The body of the loop over in.Answer, for one record a.
DecodeRecord(a) ==
    IF ~a.isTXT THEN [act |-> "continue", err |-> NoErr, f |-> 0]
    ELSE IF a.name = "servers.bind." THEN [act |-> "continue", err |-> NoErr, f |-> 0]
    ELSE IF a.name \notin StatNames THEN [act |-> "continue", err |-> NoErr, f |-> 0]
    ELSE IF Len(a.Txt) # 1 THEN [act |-> "return", err |-> ErrCount, f |-> 0]
    ELSE LET p == ParseFloat(a.Txt[1]) IN
         IF ~p.ok THEN [act |-> "return", err |-> ErrSyntax, f |-> 0]
         ELSE [act |-> "set", err |-> NoErr, f |-> p.f]

\* ------------------------------------------------------------ lease lines
Duid == <<"d", "u", "i", "d">>

\* The body of the loop over scanner.Scan() after lines++, on the fields of
\* the line.  parts[0] of an empty parts is an index out of range: a
\* run-time panic.
ScanParts(parts) ==
    IF Len(parts) = 0 THEN [act |-> "panic", key |-> <<>>, expiry |-> 0]
    ELSE IF parts[1] = Duid THEN [act |-> "break", key |-> <<>>, expiry |-> 0]
    ELSE IF Len(parts) < 5 THEN [act |-> "continue", key |-> <<>>, expiry |-> 0]
    ELSE LET p == ParseFloat(parts[1]) IN
         [act |-> "set",
          key |-> <<parts[2], parts[3], parts[4], parts[5]>>,
          expiry |-> IF p.ok THEN p.f ELSE -1]

\* parts := strings.Fields(scanner.Text()), then the body of the loop; the
\* fields are computed once and bound to parts.
ScanLine(line) == CHOOSE d \in {ScanParts(parts) : parts \in {Fields(line)}} : TRUE

\* ---------------------------------------------------------------- actions
\* The goroutines of a request as eg.Go starts them.
Spawn(r) ==
    /\ pc' = [pc EXCEPT ![r] = "running"]
    /\ eg' = [eg EXCEPT ![r] = [n |-> 2, err |-> NoErr]]
    /\ stat' = [stat EXCEPT ![r] = [pc |-> "exchange", answer |-> <<>>, i |-> 0, err |-> NoErr]]
    /\ lease' = [lease EXCEPT ![r] = [pc |-> "open", pos |-> 0, lines |-> 0, err |-> NoErr]]

\* server.metrics is entered for request r: both collectors are handed to
\* eg.Go.  Requests are numbered in their order of arrival.
Start(r) ==
    /\ ~crashed
    /\ pc[r] = "idle"
    /\ \A q \in DOMAIN pc : q < r => pc[q] # "idle"
    /\ Spawn(r)
    /\ UNCHANGED <<floatMetrics, leases, leaseExpiry, disk, resp, crashed, lastRun>>

\* The same for a client that sends its next request once the previous one
\* has been answered: r stands for the request now being served.
StartNext(r) ==
    /\ ~crashed
    /\ pc[r] # "running"
    /\ Spawn(r)
    /\ resp' = [resp EXCEPT ![r] = NoResp]
    /\ UNCHANGED <<floatMetrics, leases, leaseExpiry, disk, crashed, lastRun>>

\* The stats collector has returned err.
StatsReturn(r, err) ==
    /\ stat' = [stat EXCEPT ![r].pc = "returned", ![r].err = err]
    /\ eg' = [eg EXCEPT ![r] = GoReturn(@, err)]

\* Variant: a failed exchange zeroes the statistics gauges before returning.
StatsExchangeZeroing(r, Answers) ==
    /\ ~crashed
    /\ stat[r].pc = "exchange"
    /\ \/ /\ StatsReturn(r, ErrTransport)
          /\ floatMetrics' = [n \in StatNames |-> 0]
       \/ \E a \in Answers :
            /\ IF a = <<>>
               THEN /\ StatsReturn(r, NoErr)
               ELSE /\ stat' = [stat EXCEPT ![r].pc = "decode", ![r].answer = a, ![r].i = 1]
                    /\ eg' = eg
            /\ floatMetrics' = floatMetrics
    /\ UNCHANGED <<leases, leaseExpiry, disk, pc, lease, resp, crashed, lastRun>>

\* s.dnsClient.Exchange: a transport error, or a message whose answer
\* section is one of Answers.
StatsExchange(r, Answers) ==
    /\ ~crashed
    /\ stat[r].pc = "exchange"
    /\ \/ /\ StatsReturn(r, ErrTransport)
       \/ \E a \in Answers :
            IF a = <<>>
            THEN /\ StatsReturn(r, NoErr)
            ELSE /\ stat' = [stat EXCEPT ![r].pc = "decode", ![r].answer = a, ![r].i = 1]
                 /\ eg' = eg
    /\ UNCHANGED <<floatMetrics, leases, leaseExpiry, disk, pc, lease, resp, crashed, lastRun>>

\* Variant: a hard failure puts the gauges of the records decoded before it
\* back to zero.
StatsDecodeRollback(r) ==
    /\ ~crashed
    /\ stat[r].pc = "decode"
    /\ LET a == stat[r].answer[stat[r].i]
           d == DecodeRecord(a)
           last == stat[r].i = Len(stat[r].answer)
           named == {stat[r].answer[j].name : j \in 1..(stat[r].i - 1)}
       IN /\ floatMetrics' =
                IF d.act = "set" THEN GaugeSet(floatMetrics, a.name, d.f)
                ELSE IF d.act = "return"
                     THEN [n \in StatNames |-> IF n \in named THEN 0 ELSE floatMetrics[n]]
                     ELSE floatMetrics
          /\ IF d.act = "return" THEN StatsReturn(r, d.err)
             ELSE IF last THEN StatsReturn(r, NoErr)
             ELSE /\ stat' = [stat EXCEPT ![r].i = @ + 1]
                  /\ eg' = eg
    /\ UNCHANGED <<leases, leaseExpiry, disk, pc, lease, resp, crashed, lastRun>>

\* One turn of the loop over in.Answer; after the last record, return nil.
StatsDecode(r) ==
    /\ ~crashed
    /\ stat[r].pc = "decode"
    /\ LET a == stat[r].answer[stat[r].i]
           d == DecodeRecord(a)
           last == stat[r].i = Len(stat[r].answer)
       IN /\ floatMetrics' = IF d.act = "set" THEN GaugeSet(floatMetrics, a.name, d.f)
                             ELSE floatMetrics
          /\ IF d.act = "return" THEN StatsReturn(r, d.err)
             ELSE IF last THEN StatsReturn(r, NoErr)
             ELSE /\ stat' = [stat EXCEPT ![r].i = @ + 1]
                  /\ eg' = eg
    /\ UNCHANGED <<leases, leaseExpiry, disk, pc, lease, resp, crashed, lastRun>>

\* The lease collector has returned err, leaving the lease gauges as primed.
LeaseReturn(r, err) ==
    /\ lease' = [lease EXCEPT ![r].pc = "returned", ![r].err = err]
    /\ eg' = [eg EXCEPT ![r] = GoReturn(@, err)]
    /\ lastRun' = [valid |-> TRUE, again |-> lastRun.valid,
                   expiry |-> leaseExpiry', leases |-> leases']

\* Variant: leaseExpiry.Reset() comes before os.Open.
LeaseOpenResetsFirst(r) ==
    /\ ~crashed
    /\ lease[r].pc = "open"
    /\ leaseExpiry' = VecReset(leaseExpiry)
    /\ IF ~disk.exists
       THEN /\ UNCHANGED leases
            /\ LeaseReturn(r, ErrOpen)
       ELSE /\ lease' = [lease EXCEPT ![r].pc = "scan", ![r].pos = 1, ![r].lines = 0]
            /\ UNCHANGED <<leases, eg, lastRun>>
    /\ UNCHANGED <<floatMetrics, disk, pc, stat, resp, crashed>>

\* os.Open, and on success leaseExpiry.Reset().
LeaseOpen(r) ==
    /\ ~crashed
    /\ lease[r].pc = "open"
    /\ IF ~disk.exists
       THEN /\ UNCHANGED <<leaseExpiry, leases>>
            /\ LeaseReturn(r, ErrOpen)
       ELSE /\ leaseExpiry' = VecReset(leaseExpiry)
            /\ lease' = [lease EXCEPT ![r].pc = "scan", ![r].pos = 1, ![r].lines = 0]
            /\ UNCHANGED <<leases, eg, lastRun>>
    /\ UNCHANGED <<floatMetrics, disk, pc, stat, resp, crashed>>

\* Variant: leases.Set(lines) comes before the test of scanner.Err().
LeaseScanSetsFirst(r) ==
    /\ ~crashed
    /\ lease[r].pc = "scan"
    /\ IF lease[r].pos > Len(disk.lines)
       THEN /\ IF disk.scanErr
               THEN /\ leases' = ScalarSet(leases, lease[r].lines)
                    /\ UNCHANGED leaseExpiry
                    /\ LeaseReturn(r, ErrScan)
               ELSE /\ leases' = ScalarSet(leases, lease[r].lines)
                    /\ UNCHANGED leaseExpiry
                    /\ LeaseReturn(r, NoErr)
            /\ UNCHANGED crashed
       ELSE \E l \in {ScanLine(disk.lines[lease[r].pos])} :
            LET lines == lease[r].lines + 1
            IN CASE l.act = "panic" ->
                     /\ crashed' = TRUE
                     /\ lease' = [lease EXCEPT ![r].pc = "panicked", ![r].lines = lines]
                     /\ UNCHANGED <<leaseExpiry, leases, eg, lastRun>>
                 [] l.act = "break" ->
                     /\ leases' = ScalarSet(leases, lines)
                     /\ UNCHANGED <<leaseExpiry, crashed>>
                     /\ LeaseReturn(r, NoErr)
                 [] l.act = "continue" ->
                     /\ lease' = [lease EXCEPT ![r].pos = @ + 1, ![r].lines = lines]
                     /\ UNCHANGED <<leaseExpiry, leases, eg, crashed, lastRun>>
                 [] l.act = "set" ->
                     /\ leaseExpiry' = VecWithSet(leaseExpiry, l.key, l.expiry)
                     /\ lease' = [lease EXCEPT ![r].pos = @ + 1, ![r].lines = lines]
                     /\ UNCHANGED <<leases, eg, crashed, lastRun>>
    /\ UNCHANGED <<floatMetrics, disk, pc, stat, resp>>

\* One scanner.Scan(): the next line and the loop body for it, or the end
\* of the scan, scanner.Err() and leases.Set(lines).
LeaseScan(r) ==
    /\ ~crashed
    /\ lease[r].pc = "scan"
    /\ IF lease[r].pos > Len(disk.lines)
       THEN /\ IF disk.scanErr
               THEN /\ UNCHANGED <<leaseExpiry, leases>>
                    /\ LeaseReturn(r, ErrScan)
               ELSE /\ leases' = ScalarSet(leases, lease[r].lines)
                    /\ UNCHANGED leaseExpiry
                    /\ LeaseReturn(r, NoErr)
            /\ UNCHANGED crashed
       ELSE \E l \in {ScanLine(disk.lines[lease[r].pos])} :
            LET lines == lease[r].lines + 1
            IN CASE l.act = "panic" ->
                     /\ crashed' = TRUE
                     /\ lease' = [lease EXCEPT ![r].pc = "panicked", ![r].lines = lines]
                     /\ UNCHANGED <<leaseExpiry, leases, eg, lastRun>>
                 [] l.act = "break" ->
                     /\ leases' = ScalarSet(leases, lines)
                     /\ UNCHANGED <<leaseExpiry, crashed>>
                     /\ LeaseReturn(r, NoErr)
                 [] l.act = "continue" ->
                     /\ lease' = [lease EXCEPT ![r].pos = @ + 1, ![r].lines = lines]
                     /\ UNCHANGED <<leaseExpiry, leases, eg, crashed, lastRun>>
                 [] l.act = "set" ->
                     /\ leaseExpiry' = VecWithSet(leaseExpiry, l.key, l.expiry)
                     /\ lease' = [lease EXCEPT ![r].pos = @ + 1, ![r].lines = lines]
                     /\ UNCHANGED <<leases, eg, crashed, lastRun>>
    /\ UNCHANGED <<floatMetrics, disk, pc, stat, resp>>

\* eg.Wait() returns; then http.Error with the error, or the registry is
\* rendered by s.promHandler.
Wait(r) ==
    /\ ~crashed
    /\ pc[r] = "running"
    /\ Joined(eg[r])
    /\ IF eg[r].err # NoErr
       THEN /\ pc' = [pc EXCEPT ![r] = "failed"]
            /\ resp' = [resp EXCEPT ![r] = HttpError(eg[r].err)]
       ELSE /\ pc' = [pc EXCEPT ![r] = "success"]
            /\ resp' = [resp EXCEPT ![r] = ServeHTTP]
    /\ stat' = [stat EXCEPT ![r].answer = <<>>, ![r].i = 0]
    /\ lease' = [lease EXCEPT ![r].pos = 0, ![r].lines = 0]
    /\ UNCHANGED <<floatMetrics, leases, leaseExpiry, disk, eg, crashed, lastRun>>

\* dnsmasq replaces the lease file between scrapes: the old file goes, and
\* a file of Files appears.
RewriteLeases(Files) ==
    /\ ~crashed
    /\ \A r \in DOMAIN pc : pc[r] # "running"
    /\ IF disk.exists THEN disk' = NoFile
       ELSE disk' \in Files \ {NoFile}
    /\ lastRun' = NoRun
    /\ UNCHANGED <<floatMetrics, leases, leaseExpiry, pc, eg, stat, lease, resp, crashed>>

\* ------------------------------------------------------------ input sets
\* Lease file lines.
LineLease  == <<"1", "7", " ", "a", " ", "b", " ", "c", " ", "d">>
LineBogus  == <<"x", " ", "a", " ", "b", " ", "c", " ", "d">>
LineOther  == <<"\t", "9", " ", "e", " ", " ", "b", " ", "c", " ", "d", " ", "f">>
LineShort  == <<"1", "7", " ", "a", " ", "b">>
LineDuid   == <<"d", "u", "i", "d", " ", "a">>
LineBlank  == <<>>
LineSpaces == <<" ", "\t">>

LeaseLines == {LineLease, LineBogus, LineOther, LineShort, LineDuid, LineBlank, LineSpaces}

\* Records of a DNS answer section: the owner name, whether the record is a
\* *dns.TXT, and its Txt strings.
Rec(name, isTXT, txt) == [name |-> name, isTXT |-> isTXT, Txt |-> txt]

RecSize150 == Rec("cachesize.bind.", TRUE, << <<"1", "5", "0">> >>)
RecSize7   == Rec("cachesize.bind.", TRUE, << <<"7">> >>)
RecHits7   == Rec("hits.bind.", TRUE, << <<"7">> >>)
RecNone    == Rec("cachesize.bind.", TRUE, <<>>)
RecTwo     == Rec("hits.bind.", TRUE, << <<"1">>, <<"2">> >>)
RecBad     == Rec("cachesize.bind.", TRUE, << <<"x">> >>)
RecServers == Rec("servers.bind.", TRUE, << <<"a", " ", "1", " ", "0">>, <<"b", " ", "2", " ", "0">> >>)
RecUnknown == Rec("foo.bind.", TRUE, <<>>)
RecNotTXT  == Rec("cachesize.bind.", FALSE, <<>>)

StatRecords == {RecSize150, RecSize7, RecHits7, RecNone, RecTwo, RecBad,
                RecServers, RecUnknown, RecNotTXT}

\* ---------------------------------------------------------- specifications
\* Spec: NumRequests requests in flight together, on a lease file that does
\* not change meanwhile.
Requests == 1..NumRequests
TwoLeases == [exists |-> TRUE, lines |-> <<LineLease, LineOther>>, scanErr |-> FALSE]
ScanFails == [exists |-> TRUE, lines |-> <<LineLease>>, scanErr |-> TRUE]
SpecFiles == {NoFile, TwoLeases, ScanFails}
SpecAnswers == {<<RecSize150>>, <<RecNone>>}

Init == InitOn(Requests, SpecFiles)

Next ==
    \E r \in Requests :
       \/ Start(r)
       \/ StatsExchange(r, SpecAnswers)
       \/ StatsDecode(r)
       \/ LeaseOpen(r)
       \/ LeaseScan(r)
       \/ Wait(r)

Spec == Init /\ [][Next]_vars

\* SpecFair: concurrent requests on a file that is missing, that scans to
\* its end, whose scan fails, or that holds a line without fields, with the
\* scheduling the Go runtime gives: a goroutine that can take its next step
\* takes it (the exchange ends by the transport's own deadline), and eg.Wait
\* returns once it can.  Requests arrive or not.
OneLease == [exists |-> TRUE, lines |-> <<LineLease>>, scanErr |-> FALSE]
BlankLine == [exists |-> TRUE, lines |-> <<LineBlank>>, scanErr |-> FALSE]

InitFair == InitOn(Requests, {NoFile, OneLease, ScanFails, BlankLine})

\* A step of request r once it has started.
Step(r) ==
    \/ StatsExchange(r, SpecAnswers)
    \/ StatsDecode(r)
    \/ LeaseOpen(r)
    \/ LeaseScan(r)
    \/ Wait(r)

SpecFair ==
    /\ InitFair
    /\ [][Next]_vars
    /\ \A r \in Requests : WF_vars(Step(r))

\* SpecLease: one request after the other, over every lease file of at most
\* MaxLines lines; dnsmasq answers the stats query with no record.
Serial == {1}
LeaseFiles == {NoFile} \cup FilesOver(LeaseLines)

InitLease == InitOn(Serial, LeaseFiles)

NextLease ==
    \/ \E r \in Serial :
          \/ StartNext(r)
          \/ StatsExchange(r, {<<>>})
          \/ LeaseOpen(r)
          \/ LeaseScan(r)
          \/ Wait(r)
    \/ RewriteLeases(LeaseFiles)

SpecLease == InitLease /\ [][NextLease]_vars

\* SpecStats: one request after the other, over every answer section of at
\* most MaxRecords records; the lease file holds one lease.
StatAnswers == SeqsUpTo(StatRecords, MaxRecords)

InitStats == InitOn(Serial, {OneLease})

NextStats ==
    \E r \in Serial :
       \/ StartNext(r)
       \/ StatsExchange(r, StatAnswers)
       \/ StatsDecode(r)
       \/ LeaseOpen(r)
       \/ LeaseScan(r)
       \/ Wait(r)

SpecStats == InitStats /\ [][NextStats]_vars

\* ================================================================== claims
Terminal == {"success", "failed"}

\* C1: a request's registry is rendered only after both of its collectors
\* have returned: no request has rendered while its stats collector or its
\* lease collector can still write a gauge.
C1_RenderAfterBothCollectors ==
    \A r \in Requests :
        resp[r].rendered # NoRender =>
            /\ pc[r] = "success"
            /\ eg[r].n = 0
            /\ stat[r].pc = "returned"
            /\ lease[r].pc = "returned"

\* A request has rendered a registry that both of its collectors wrote to.
C1_Witness ==
    \E r \in Requests :
        /\ pc[r] = "success"
        /\ resp[r].rendered.stats["cachesize.bind."] = 150
        /\ DOMAIN resp[r].rendered.expiry # {}

\* C2: a request ends in success (200, registry rendered, no error text)
\* exactly when both collectors returned nil, and in failed (500, nothing
\* rendered) exactly when one of them returned an error; a lease file that
\* cannot be opened gives 500 whatever the stats collector returned.
C2_SuccessIffNoCollectorError ==
    \A r \in Requests :
        /\ pc[r] = "success" =>
              /\ stat[r].pc = "returned" /\ stat[r].err = NoErr
              /\ lease[r].pc = "returned" /\ lease[r].err = NoErr
              /\ resp[r].status = StatusOK
              /\ resp[r].rendered # NoRender
              /\ resp[r].body = ""
        /\ pc[r] = "failed" =>
              /\ stat[r].err # NoErr \/ lease[r].err # NoErr
              /\ resp[r].status = StatusInternalServerError
              /\ resp[r].rendered = NoRender
              /\ resp[r].body # ""
        /\ (pc[r] \in Terminal /\ lease[r].err = ErrOpen) =>
              /\ pc[r] = "failed"
              /\ resp[r].status = StatusInternalServerError

\* The lease file could not be opened, the stats collector returned nil,
\* and the request has been answered.
C2_Witness ==
    \E r \in Requests :
        /\ pc[r] = "failed"
        /\ lease[r].err = ErrOpen
        /\ stat[r].pc = "returned" /\ stat[r].err = NoErr

\* What the lease collector returns on the file f when nothing stops it
\* (the files of Spec hold neither a duid line nor a line without fields).
OwnLeaseError(f) ==
    IF ~f.exists THEN ErrOpen ELSE IF f.scanErr THEN ErrScan ELSE NoErr

\* C3: an error of one collector does not cancel the other: the 500 is
\* written only when both collectors have returned, the lease collector has
\* then returned what its own file makes it return, whatever the stats
\* collector did, and when that is nil dnsmasq_leases counts the lines of
\* the file; the stats collector has returned nil or an error of its own.
C3_NoCancelAndWaitForBoth ==
    \A r \in Requests :
        pc[r] = "failed" =>
            /\ eg[r].n = 0
            /\ stat[r].pc = "returned"
            /\ lease[r].pc = "returned"
            /\ stat[r].err \in {NoErr, ErrTransport, ErrCount}
            /\ lease[r].err = OwnLeaseError(disk)
            /\ lease[r].err = NoErr => leases = Len(disk.lines)

\* The stats collector failed first, the lease collector then scanned the
\* whole file, and the request has answered 500.
C3_Witness ==
    \E r \in Requests :
        /\ pc[r] = "failed"
        /\ stat[r].err # NoErr
        /\ lease[r].err = NoErr
        /\ leases = 2
        /\ DOMAIN leaseExpiry # {}

\* C4 as stated: after a transport error of the DNS exchange the request
\* answers 500 and the body is the transport error's message.
C4_BodyIsTransportError ==
    \A r \in Requests :
        (pc[r] \in Terminal /\ stat[r].err = ErrTransport) =>
            /\ resp[r].status = StatusInternalServerError
            /\ resp[r].body = ErrTransport

\* C4 as amended: after a transport error of the DNS exchange the answer,
\* once written, is a 500; its body is the transport error's message when
\* the lease collector returned nil, and otherwise the message of one of the
\* two errors (the one reported first).
C4_BodyIsTransportErrorUnlessLeaseError ==
    \A r \in Requests :
        (pc[r] \in Terminal /\ stat[r].err = ErrTransport) =>
            /\ pc[r] = "failed"
            /\ resp[r].status = StatusInternalServerError
            /\ resp[r].body \in {ErrTransport, lease[r].err} \ {NoErr}
            /\ lease[r].err = NoErr => resp[r].body = ErrTransport

\* The exchange failed, the body carries its message, and the lease
\* collector of the same request has meanwhile rebuilt the lease gauges.
C4_Witness ==
    \E r \in Requests :
        /\ pc[r] = "failed"
        /\ stat[r].err = ErrTransport
        /\ resp[r].body = ErrTransport
        /\ lease[r].err = NoErr
        /\ leases = 2
        /\ Cardinality(DOMAIN leaseExpiry) = 2

\* ------------------------------------------------- lease files, as specified
\* The first field of the line is the token duid.
IsDuidLine(l) == Fields(l) # <<>> /\ Fields(l)[1] = Duid

\* The position of the first duid line, or one past the last line.
FirstDuid(ls) ==
    IF \E i \in 1..Len(ls) : IsDuidLine(ls[i])
    THEN CHOOSE i \in 1..Len(ls) :
            IsDuidLine(ls[i]) /\ \A j \in 1..(i - 1) : ~IsDuidLine(ls[j])
    ELSE Len(ls) + 1

\* The lines that precede the first duid line.
BeforeDuid(ls) == SubSeq(ls, 1, FirstDuid(ls) - 1)

WellFormed(l) == Len(Fields(l)) >= 5

LabelsOf(l) == <<Fields(l)[2], Fields(l)[3], Fields(l)[4], Fields(l)[5]>>

ExpiryOf(l) == IF ParseFloat(Fields(l)[1]).ok THEN ParseFloat(Fields(l)[1]).f ELSE -1

\* The lease collector of r has returned nil and r has not answered yet;
\* with requests served one at a time the lease gauges are as it left them
\* and disk is the file it scanned.
LeaseDone(r) == pc[r] = "running" /\ lease[r].pc = "returned" /\ lease[r].err = NoErr

\* C5 as stated: after a lease collection that returned nil, dnsmasq_leases
\* is the number of lines before the first duid line (all lines when there
\* is none): the duid line is not counted.
C5_LeasesCountsLinesBeforeDuid ==
    \A r \in Serial :
        LeaseDone(r) => leases = Len(BeforeDuid(disk.lines))

\* C6: after a lease collection that returned nil, with no other request in
\* flight, the series of dnsmasq_lease_expiry are exactly the label 4-tuples
\* of the lines of at least 5 fields before the first duid line, and each
\* holds the expiry of the last line with its labels, -1 when that does not
\* parse; nothing of an earlier scrape is left.
C6_ExpiryVectorIsReplaced ==
    \A r \in Serial :
        LeaseDone(r) =>
            LET B == BeforeDuid(disk.lines)
                W == {i \in 1..Len(B) : WellFormed(B[i])}
            IN /\ DOMAIN leaseExpiry = {LabelsOf(B[i]) : i \in W}
               /\ \A i \in W :
                     (\A j \in W : j > i => LabelsOf(B[j]) # LabelsOf(B[i]))
                        => leaseExpiry[LabelsOf(B[i])] = ExpiryOf(B[i])

\* A file whose two lines carry the same labels, the later with an expiry
\* that does not parse, has been collected.
C6_Witness ==
    \E r \in Serial :
        /\ LeaseDone(r)
        /\ disk.lines = <<LineLease, LineBogus>>
        /\ DOMAIN leaseExpiry = {<< <<"a">>, <<"b">>, <<"c">>, <<"d">> >>}
        /\ leaseExpiry[<< <<"a">>, <<"b">>, <<"c">>, <<"d">> >>] = -1

\* C7: when the lease collector returns and a lease collector had already
\* returned on the same, unchanged file, it leaves dnsmasq_lease_expiry and
\* dnsmasq_leases as that earlier run left them.
C7_LeaseCollectorIdempotent ==
    [][\A r \in Serial :
          (lease[r].pc # "returned" /\ lease'[r].pc = "returned" /\ lastRun.valid)
             => (leaseExpiry' = lastRun.expiry /\ leases' = lastRun.leases)]_vars

\* The collector has returned for the second time on an unchanged file of
\* two leases.
C7_Witness ==
    \E r \in Serial :
        /\ LeaseDone(r)
        /\ lastRun.again
        /\ leases = 2
        /\ Cardinality(DOMAIN leaseExpiry) = 2

\* C10 as stated: whatever the lines of the lease file, lines without any
\* field included, the process is never crashed, and once the collector has
\* returned nil every line of fewer than 5 fields is counted in
\* dnsmasq_leases and has no series.
C10_MalformedLinesNeverCrash ==
    /\ ~crashed
    /\ \A r \in Serial :
          /\ lease[r].pc # "panicked"
          /\ LeaseDone(r) =>
                LET B == BeforeDuid(disk.lines)
                    W == {i \in 1..Len(B) : WellFormed(B[i])}
                IN /\ leases >= Len(B)
                   /\ Cardinality(DOMAIN leaseExpiry) <= Cardinality(W)

\* ---------------------------------------------- answer records, as specified
\* A text record whose name is one of the six statistics.
Recognized(a) == a.isTXT /\ a.name \in StatNames

\* A recognized record with exactly one text value, which parses.
OneValue(a) == Recognized(a) /\ Len(a.Txt) = 1 /\ ParseFloat(a.Txt[1]).ok

\* A recognized record with no text value, or with two or more.
BadCount(a) == Recognized(a) /\ Len(a.Txt) # 1

\* A recognized record that ends the decoding with an error.
HardFails(a) == Recognized(a) /\ ~OneValue(a)

Last(S) == CHOOSE i \in S : \A j \in S : j <= i

\* The stats collector of r has received an answer and returned, and r has
\* not answered yet; with requests served one at a time the statistics
\* gauges are as it left them.
StatsDone(r) == pc[r] = "running" /\ stat[r].pc = "returned" /\ stat[r].err # ErrTransport

\* C8 as stated: when the answer holds records of one parsable value for a
\* statistic, its gauge equals, after the collector, the value of the last
\* of them.
C8_GaugeIsLastOneValueRecord ==
    \A r \in Serial : \A n \in StatNames :
        StatsDone(r) =>
            LET ans == stat[r].answer
                S == {i \in 1..Len(ans) : OneValue(ans[i]) /\ ans[i].name = n}
            IN S # {} => floatMetrics[n] = ParseFloat(ans[Last(S)].Txt[1]).f

\* C8 as amended: the same of the records that no hard-failing record
\* precedes in the answer: the gauge equals the value of the last record of
\* one parsable value for the statistic that comes before the first record
\* with a wrong value count or an unparsable value.
C8_GaugeIsLastDecodedRecord ==
    \A r \in Serial : \A n \in StatNames :
        StatsDone(r) =>
            LET ans == stat[r].answer
                S == {i \in 1..Len(ans) :
                        /\ OneValue(ans[i]) /\ ans[i].name = n
                        /\ \A j \in 1..(i - 1) : ~HardFails(ans[j])}
            IN S # {} => floatMetrics[n] = ParseFloat(ans[Last(S)].Txt[1]).f

\* An answer with two records for cachesize.bind. has been decoded: the
\* gauge holds the value of the second.
C8_Witness ==
    \E r \in Serial :
        /\ StatsDone(r)
        /\ stat[r].err = NoErr
        /\ stat[r].answer = <<RecSize150, RecSize7>>
        /\ floatMetrics["cachesize.bind."] = 7

\* C9: the turn of the decoding loop that meets a recognized record with no
\* text value, or with several, changes no gauge and returns the count
\* error; and a request whose answer holds such a record is answered 500.
C9_BadCountFailsAndSetsNothing ==
    [][\A r \in Serial :
          /\ (/\ stat[r].pc = "decode"
              /\ BadCount(stat[r].answer[stat[r].i])
              /\ stat'[r] # stat[r])
                => /\ floatMetrics' = floatMetrics
                   /\ stat'[r].pc = "returned"
                   /\ stat'[r].err = ErrCount
          /\ (/\ pc[r] = "running" /\ pc'[r] # "running"
              /\ \E i \in 1..Len(stat[r].answer) : BadCount(stat[r].answer[i]))
                => /\ pc'[r] = "failed"
                   /\ resp'[r].status = StatusInternalServerError]_vars

\* A cachesize.bind. record without a value came after one with the value
\* 150: the collector has returned the count error and the gauge is 150.
C9_Witness ==
    \E r \in Serial :
        /\ StatsDone(r)
        /\ stat[r].err = ErrCount
        /\ stat[r].answer = <<RecSize150, RecNone>>
        /\ floatMetrics["cachesize.bind."] = 150


\* C11: from the start of the stats collector to its return of the
\* transport error no statistics gauge changes (requests served one at a
\* time): every step taken while the collector is at the exchange and does
\* not leave it, or leaves it with the transport error, keeps floatMetrics.
C11_TransportErrorTouchesNoGauge ==
    [][\A r \in Serial :
          (/\ stat[r].pc = "exchange"
           /\ \/ stat'[r].pc = "exchange"
              \/ stat'[r].pc = "returned" /\ stat'[r].err = ErrTransport)
             => floatMetrics' = floatMetrics]_vars

\* The exchange has failed and dnsmasq_cachesize still holds the 150 that
\* an earlier scrape set.
C11_Witness ==
    \E r \in Serial :
        /\ pc[r] = "running"
        /\ stat[r].pc = "returned"
        /\ stat[r].err = ErrTransport
        /\ floatMetrics["cachesize.bind."] = 150

\* C12: a step of the stats collector changes neither dnsmasq_leases nor
\* dnsmasq_lease_expiry and writes no entry other than the six statistics
\* gauges; a step of the lease collector changes no statistics gauge.
C12_CollectorsWriteDisjointGauges ==
    [][\A r \in Requests :
          /\ (stat[r].pc \in {"exchange", "decode"} /\ stat'[r] # stat[r])
                => /\ leases' = leases
                   /\ leaseExpiry' = leaseExpiry
                   /\ DOMAIN floatMetrics' = StatNames
          /\ (lease[r].pc \in {"open", "scan"} /\ lease'[r] # lease[r])
                => floatMetrics' = floatMetrics]_vars

\* Both collectors of one request have written their gauges.
C12_Witness ==
    \E r \in Requests :
        /\ pc[r] = "running"
        /\ stat[r].pc = "returned" /\ stat[r].err = NoErr
        /\ lease[r].pc = "returned" /\ lease[r].err = NoErr
        /\ floatMetrics["cachesize.bind."] = 150
        /\ leases = 2


\* The label 4-tuples of the well-formed leases of the file f.
FileLabels(f) ==
    LET B == BeforeDuid(f.lines)
    IN {LabelsOf(B[i]) : i \in {j \in 1..Len(B) : WellFormed(B[j])}}

\* C13: requests are not serialized against each other.  A request renders
\* only series of the file, and when what it renders misses a well-formed
\* lease of the file, the lease collector of another request is at that
\* moment between its Reset and its return.
C13_RenderMissesLeasesOnlyDuringAnotherScan ==
    [][\A r \in Requests :
          (pc[r] = "running" /\ pc'[r] = "success") =>
              /\ DOMAIN resp'[r].rendered.expiry \subseteq FileLabels(disk)
              /\ DOMAIN resp'[r].rendered.expiry # FileLabels(disk)
                    => \E q \in Requests \ {r} : lease[q].pc = "scan"]_vars

\* One request has answered 200 with an empty dnsmasq_lease_expiry, on a
\* file of two leases, while the lease collector of another request is
\* between its Reset and its return.
C13_Witness ==
    \E r \in Requests : \E q \in Requests \ {r} :
        /\ pc[r] = "success"
        /\ disk = TwoLeases
        /\ resp[r].rendered.expiry = EmptyVec
        /\ resp[r].rendered.leases = 2
        /\ lease[q].pc = "scan"
        /\ leaseExpiry = EmptyVec


\* C14: a request goes idle -> running -> success or failed and no other
\* way, and a terminal state and its response are never left; while it is
\* running with both collectors returned nothing but eg.Wait holds it
\* (wg is zero); and under fair scheduling no request stays running for
\* ever: as running is only left for success or failed, a running request
\* reaches one of them, unless a collector does not terminate but panics.
C14_RequestReachesOneTerminalState ==
    /\ [][\A r \in Requests :
             /\ pc[r] = "idle" => pc'[r] \in {"idle", "running"}
             /\ pc[r] = "running" => pc'[r] \in {"running", "success", "failed"}
             /\ pc[r] \in Terminal => (pc'[r] = pc[r] /\ resp'[r] = resp[r])]_vars
    /\ [](\A r \in Requests :
             (pc[r] = "running" /\ stat[r].pc = "returned" /\ lease[r].pc = "returned")
                => eg[r].n = 0)
    /\ \A r \in Requests : []<>(pc[r] # "running" \/ crashed)

\* One request has ended in success and another in failed.
C14_Witness ==
    \E r \in Requests : \E q \in Requests :
        /\ pc[r] = "success" /\ resp[r].status = StatusOK
        /\ pc[q] = "failed" /\ resp[q].status = StatusInternalServerError


\* Both collectors of r have returned nil and eg.Wait has not returned yet:
\* the next step of r renders the registry as it is now.
AboutToRender(r) == pc[r] = "running" /\ Joined(eg[r]) /\ eg[r].err = NoErr

\* C15: requests served one at a time.  What a successful request renders
\* comes from its own answer and its own lease file: each statistics gauge
\* holds the value of the last record of the request's answer that names
\* it, and is untouched (0, as registered) when no record of the answer
\* names it; the lease series are those of the file; and the request fails
\* exactly when one of its own collectors returned an error.
C15_RenderedFromOwnAnswerAndFile ==
    \A r \in Serial :
        /\ AboutToRender(r) =>
              /\ \A n \in StatNames :
                    LET ans == stat[r].answer
                        S == {i \in 1..Len(ans) : OneValue(ans[i]) /\ ans[i].name = n}
                    IN floatMetrics[n] =
                          IF S # {} THEN ParseFloat(ans[Last(S)].Txt[1]).f ELSE 0
              /\ DOMAIN leaseExpiry = FileLabels(disk)
        /\ (pc[r] = "running" /\ Joined(eg[r]))
              => (eg[r].err # NoErr <=> (stat[r].err # NoErr \/ lease[r].err # NoErr))


\* A record the decoding loop skips: not of type TXT, or named
\* servers.bind., or of a name that is not a key of floatMetrics.
Ignored(a) == ~a.isTXT \/ a.name = "servers.bind." \/ a.name \notin StatNames

\* C16: the turn of the decoding loop that meets an ignored record, however
\* many text values it carries, changes no gauge and sets no error: the
\* collector goes on to the next record, or returns nil after the last.
C16_IgnoredRecordsAreSkipped ==
    [][\A r \in Serial :
          (/\ stat[r].pc = "decode"
           /\ Ignored(stat[r].answer[stat[r].i])
           /\ stat'[r] # stat[r])
             => /\ floatMetrics' = floatMetrics
                /\ stat'[r].err = NoErr
                /\ eg'[r].err = eg[r].err
                /\ IF stat[r].i < Len(stat[r].answer)
                   THEN stat'[r].pc = "decode" /\ stat'[r].i = stat[r].i + 1
                   ELSE stat'[r].pc = "returned"]_vars

\* A servers.bind. record of two values came before cachesize.bind. 150:
\* the collector has returned nil and the gauge is 150.
C16_Witness ==
    \E r \in Serial :
        /\ StatsDone(r)
        /\ stat[r].err = NoErr
        /\ stat[r].answer = <<RecServers, RecSize150>>
        /\ floatMetrics["cachesize.bind."] = 150


\* C17: no rollback in the stats decoding (requests served one at a time).
\* When the collector has returned the count or the syntax error it stopped
\* at the first hard-failing record, position k, and every gauge named by a
\* valid record before k holds the value of the last such record; the
\* failing turn itself changes no gauge, and from the return to the answer
\* of the request no gauge changes, so no record after k is applied.
C17_NoRollbackAndNothingAfterFailure ==
    /\ [](\A r \in Serial :
            (StatsDone(r) /\ stat[r].err \in {ErrCount, ErrSyntax}) =>
                LET ans == stat[r].answer
                    k == stat[r].i
                IN /\ k \in 1..Len(ans)
                   /\ HardFails(ans[k])
                   /\ \A j \in 1..(k - 1) : ~HardFails(ans[j])
                   /\ \A n \in StatNames :
                        LET S == {i \in 1..(k - 1) : OneValue(ans[i]) /\ ans[i].name = n}
                        IN S # {} => floatMetrics[n] = ParseFloat(ans[Last(S)].Txt[1]).f)
    /\ [][\A r \in Serial :
            /\ (/\ stat[r].pc = "decode"
                /\ HardFails(stat[r].answer[stat[r].i])
                /\ stat'[r] # stat[r])
                  => /\ floatMetrics' = floatMetrics
                     /\ stat'[r].pc = "returned"
                     /\ stat'[r].err \in {ErrCount, ErrSyntax}
            /\ (pc[r] = "running" /\ stat[r].pc = "returned")
                  => floatMetrics' = floatMetrics]_vars

\* hits.bind. 7 came before a cachesize.bind. record with the value "x":
\* the collector has returned the syntax error and hits is 7.
C17_Witness ==
    \E r \in Serial :
        /\ StatsDone(r)
        /\ stat[r].err = ErrSyntax
        /\ stat[r].answer = <<RecHits7, RecBad>>
        /\ floatMetrics["hits.bind."] = 7


\* C18: dnsmasq_leases is set only by a lease collector that returns nil.
\* The turn that ends the scan with the error of scanner.Err() sets
\* neither gauge; the collector then has returned that error with
\* dnsmasq_lease_expiry holding the entries of the lines of the file, all
\* scanned before the error, and nothing of the earlier scrape; and the
\* request is answered 500.
C18_ScanErrorKeepsLeasesTotal ==
    /\ [](\A r \in Serial :
            (pc[r] = "running" /\ lease[r].pc = "returned" /\ lease[r].err = ErrScan) =>
                LET B == disk.lines
                    W == {i \in 1..Len(B) : WellFormed(B[i])}
                IN /\ DOMAIN leaseExpiry = {LabelsOf(B[i]) : i \in W}
                   /\ \A i \in W :
                         (\A j \in W : j > i => LabelsOf(B[j]) # LabelsOf(B[i]))
                            => leaseExpiry[LabelsOf(B[i])] = ExpiryOf(B[i])
                   /\ eg[r].err # NoErr)
    /\ [][/\ leases' # leases =>
                \E r \in Serial :
                    /\ lease[r].pc = "scan"
                    /\ lease'[r].pc = "returned"
                    /\ lease'[r].err = NoErr
          /\ \A r \in Serial :
                /\ (lease[r].pc = "scan" /\ lease'[r].pc = "returned" /\ lease'[r].err = ErrScan)
                      => leases' = leases /\ leaseExpiry' = leaseExpiry
                /\ (/\ pc[r] = "running" /\ pc'[r] # "running"
                    /\ lease[r].err = ErrScan)
                      => /\ pc'[r] = "failed"
                         /\ resp'[r].status = StatusInternalServerError]_vars

\* A scrape of a file of two leases set dnsmasq_leases to 2; the file was
\* replaced by one of a single lease whose scan ends with an error: the
\* collector has returned it, the vector holds that one lease, and
\* dnsmasq_leases is still 2.
C18_Witness ==
    \E r \in Serial :
        /\ pc[r] = "running" /\ lease[r].pc = "returned" /\ lease[r].err = ErrScan
        /\ disk.lines = <<LineLease>>
        /\ DOMAIN leaseExpiry = {<< <<"a">>, <<"b">>, <<"c">>, <<"d">> >>}
        /\ leases = 2


\* C19: the group keeps the first error only.  The error of a request's
\* group, once set, never changes; the first collector to return an error
\* sets it; and a failed request carries exactly that error as the body of
\* its 500, which is the error of one of its collectors, and of the one
\* that failed when only one did.
C19_FirstErrorOnly ==
    /\ [][\A r \in Requests :
            /\ eg[r].err # NoErr => eg'[r].err = eg[r].err
            /\ (eg[r].err = NoErr /\ stat[r].pc # "returned" /\ stat'[r].pc = "returned")
                  => eg'[r].err = stat'[r].err
            /\ (eg[r].err = NoErr /\ lease[r].pc # "returned" /\ lease'[r].pc = "returned")
                  => eg'[r].err = lease'[r].err]_vars
    /\ [](\A r \in Requests :
            pc[r] = "failed" =>
                /\ resp[r].body = eg[r].err
                /\ resp[r].body \in {stat[r].err, lease[r].err} \ {NoErr}
                /\ stat[r].err = NoErr => resp[r].body = lease[r].err
                /\ lease[r].err = NoErr => resp[r].body = stat[r].err)

\* Both collectors of a request failed, the lease collector first: the
\* body is its error and the transport error is dropped.
C19_Witness ==
    \E r \in Requests :
        /\ pc[r] = "failed"
        /\ stat[r].err = ErrTransport
        /\ lease[r].err = ErrOpen
        /\ resp[r].body = ErrOpen


\* C20: when the lease file cannot be opened the lease collector returns
\* the error of os.Open on its first turn, and that turn neither resets
\* dnsmasq_lease_expiry nor sets dnsmasq_leases: both are as the previous
\* scrape left them.
C20_OpenErrorTouchesNoGauge ==
    [][\A r \in Serial :
          /\ (lease[r].pc = "open" /\ ~disk.exists /\ lease'[r] # lease[r])
                => /\ lease'[r].pc = "returned"
                   /\ lease'[r].err = ErrOpen
          /\ (lease[r].pc = "open" /\ lease'[r].pc = "returned")
                => /\ lease'[r].err = ErrOpen
                   /\ leaseExpiry' = leaseExpiry
                   /\ leases' = leases]_vars

\* A scrape collected a file of two leases, the file went away, and the
\* next lease collector has returned the open error: the vector still
\* holds the leases of the file that is gone and dnsmasq_leases is still 2.
C20_Witness ==
    \E r \in Serial :
        /\ pc[r] = "running" /\ lease[r].pc = "returned" /\ lease[r].err = ErrOpen
        /\ ~disk.exists
        /\ leaseExpiry # EmptyVec
        /\ leases = 2

====
